---- MODULE Spec2Model ----
(***************************************************************************)
(* A model of node-chainsaw (src/index.js): chains of deferred fluent      *)
(* calls, the execution driver (pop/next), nesting (nest) and the replay   *)
(* controller of recording mode (record/trap/down/jump).                   *)
(*                                                                         *)
(* JavaScript runs one call stack at a time.  Every action below is the    *)
(* body of one piece of code run to completion, with every controller      *)
(* call it makes: a proxied fluent call, the nextTick callback of chain(), *)
(* an operation of the surface, a trap callback, the tail of nest after    *)
(* its callback returned.  pc says which external code runs next.          *)
(*                                                                         *)
(* The surface is the AddDo builder of the README (add, do) extended with  *)
(* operations that call each remaining controller method once:             *)
(*   fork(cb)  saw.nest(false, cb, sum)                                    *)
(*   trap(n)   saw.trap(n, cb); saw.next()     cb calls saw.next()         *)
(*   down(n)   saw.down(n)                                                 *)
(*   jump(s)   saw.jump(s)                                                 *)
(*   record()  saw.record(); saw.next()                                    *)
(* and with gone, an operation the builder removed from saw.handlers after *)
(* chain() copied the surface, so that its path no longer resolves.        *)
(* A path is a sequence of segments; segments hold no '/', so equality of  *)
(* the joined strings (index.js:174-177) is equality of the sequences.     *)
(***************************************************************************)
EXTENDS Integers, Sequences, FiniteSets, TLC

\* ------------------------------------------------------------------ bounds
MaxChains == 3
MaxCalls == 3
MaxAddDoCalls == 4
MaxReplay == 2
FarStep == 7
\* calls of jump and down, and calls from outside, in the runs of SpecOutside
MaxOutside == 3

Chains == 1..MaxChains

VARIABLES
    saws,    \* chain id -> the saw object of chainsaw.saw (plus its history)
    pc,      \* the external code that runs next
    ticks,   \* process.nextTick queue: chains whose begin/next is scheduled
    sum,     \* the accumulator closed over by the AddDo builder
    fuel,    \* replay calls (jump, down, record) and outside calls still allowed
    cbLog,   \* history: nest callbacks invoked, with the argument received
    lastDown,\* history: what the most recent down() did
    lastJump,\* history: what the most recent jump() did
    input    \* history: the initial accumulator and the top-level call sequence

vars == <<saws, pc, ticks, sum, fuel, cbLog, lastDown, lastJump, input>>

\* ----------------------------------------------------------------- records
NoArgs == [num |-> 0, str |-> ""]

\* what saw.pop() returns on an exhausted queue
Undefined == [id |-> 0, path |-> <<>>, args |-> NoArgs, trap |-> FALSE, step |-> 0, cb |-> ""]

\* a fluent call: the proxied function named path[0] applied to its arguments
Call(name, num, str) == [path |-> <<name>>, args |-> [num |-> num, str |-> str]]

\* the {path, args} object pushed by a proxied function; id is the object's identity
ActionRecord(call, id) ==
    [id |-> id, path |-> call.path, args |-> call.args, trap |-> FALSE, step |-> 0, cb |-> ""]

\* the {path, step, cb, trap} object pushed by saw.trap
TrapRecord(name, step, cb, id) ==
    [id |-> id, path |-> <<name>>, args |-> NoArgs, trap |-> TRUE, step |-> step, cb |-> cb]

Idle == [kind |-> "idle", chain |-> 0, rec |-> Undefined]
Running(kind, c, rec) == [kind |-> kind, chain |-> c, rec |-> rec]

\* a chain id not yet handed out by chainsaw.saw
NoSaw ==
    [exists |-> FALSE, recording |-> FALSE, step |-> 0, actions |-> <<>>,
     parent |-> 0, autonext |-> FALSE, listening |-> FALSE,
     begun |-> 0, ends |-> 0, issued |-> <<>>, invoked |-> <<>>,
     todo |-> <<>>, nestAt |-> 0, replays |-> <<>>,
     late |-> <<>>, resumed |-> 0, failed |-> <<>>, wild |-> FALSE]

\* chainsaw.saw: a fresh emitter with an empty queue, no cursor, stub replay methods
NewSaw(parent, todo) ==
    [NoSaw EXCEPT !.exists = TRUE, !.parent = parent, !.todo = todo]

\* upgradeChainsaw: the cursor is defined and set to 0, pop/trap/down/jump are replaced
UpgradeChainsaw(s) == [s EXCEPT !.recording = TRUE, !.step = 0]

\* --------------------------------------------------------- execution driver
\* mutant: the queue consumed from the wrong end (actions.pop())
ShiftPopLast(s) ==
    IF s.actions = <<>>
    THEN [action |-> Undefined, saw |-> s]
    ELSE [action |-> s.actions[Len(s.actions)],
          saw |-> [s EXCEPT !.actions = SubSeq(@, 1, Len(@) - 1)]]

\* saw.pop of chainsaw.saw: actions.shift()
ShiftPop(s) ==
    IF s.actions = <<>>
    THEN [action |-> Undefined, saw |-> s]
    ELSE [action |-> Head(s.actions), saw |-> [s EXCEPT !.actions = Tail(@)]]

\* mutant: the recording pop still consumes the queue
CursorPopShift(s) ==
    IF s.actions = <<>>
    THEN [action |-> Undefined, saw |-> [s EXCEPT !.step = @ + 1]]
    ELSE [action |-> Head(s.actions), saw |-> [s EXCEPT !.actions = Tail(@), !.step = @ + 1]]

\* saw.pop of upgradeChainsaw: actions[step++]
CursorPop(s) ==
    [action |-> IF s.step >= 0 /\ s.step < Len(s.actions)
                THEN s.actions[s.step + 1] ELSE Undefined,
     saw |-> [s EXCEPT !.step = @ + 1]]

\* mutant: record() leaves the consuming pop in place
PopShiftOnly(s) == ShiftPop(s)

\* the pop in force: upgradeChainsaw overrides the one of chainsaw.saw
Pop(s) == IF s.recording THEN CursorPop(s) ELSE ShiftPop(s)

\* the paths that resolve to a function of saw.handlers when next() runs
Surface == {<<"add">>, <<"do">>, <<"fork">>, <<"trap">>, <<"down">>, <<"jump">>, <<"record">>}

\* saw.next on chain c in the saws S.  An exhausted queue emits 'end', whose
\* listener (registered by nest) is the parent's next, run synchronously.  A
\* path that resolves to nothing makes node.apply throw a TypeError, which
\* nothing catches.  The result holds the new saws and the external code
\* entered, if any.
RECURSIVE SawNext(_, _)

\* mutant: next() on a trap record runs the trap's callback
SawNextSpringsTrap(S, c) ==
    LET p == Pop(S[c])
        S1 == [S EXCEPT ![c] = p.saw]
    IN  IF p.action = Undefined
        THEN LET S2 == [S1 EXCEPT ![c].ends = @ + 1]
             IN  IF S2[c].listening
                 THEN SawNext([S2 EXCEPT ![c].resumed = @ + 1], S2[c].parent)
                 ELSE [saws |-> S2, run |-> Idle]
        ELSE IF ~p.action.trap
        THEN IF p.action.path \in Surface
             THEN [saws |-> [S1 EXCEPT ![c].invoked = Append(@, p.action)],
                   run |-> Running("op", c, p.action)]
             ELSE [saws |-> [S1 EXCEPT ![c].failed = Append(@, p.action)],
                   run |-> Running("typeerror", c, p.action)]
        ELSE [saws |-> S1, run |-> Running("trapcb", c, p.action)]

\* mutant: next() drops a record whose path resolves to nothing
SawNextSkipsUnresolved(S, c) ==
    LET p == Pop(S[c])
        S1 == [S EXCEPT ![c] = p.saw]
    IN  IF p.action = Undefined
        THEN LET S2 == [S1 EXCEPT ![c].ends = @ + 1]
             IN  IF S2[c].listening
                 THEN SawNext([S2 EXCEPT ![c].resumed = @ + 1], S2[c].parent)
                 ELSE [saws |-> S2, run |-> Idle]
        ELSE IF ~p.action.trap
        THEN IF p.action.path \in Surface
             THEN [saws |-> [S1 EXCEPT ![c].invoked = Append(@, p.action)],
                   run |-> Running("op", c, p.action)]
             ELSE SawNext([S1 EXCEPT ![c].failed = Append(@, p.action)], c)
        ELSE [saws |-> S1, run |-> Idle]

SawNext(S, c) ==
    LET p == Pop(S[c])
        S1 == [S EXCEPT ![c] = p.saw]
    IN  IF p.action = Undefined
        THEN LET S2 == [S1 EXCEPT ![c].ends = @ + 1]
             IN  IF S2[c].listening
                 THEN SawNext([S2 EXCEPT ![c].resumed = @ + 1], S2[c].parent)
                 ELSE [saws |-> S2, run |-> Idle]
        ELSE IF ~p.action.trap
        THEN IF p.action.path \in Surface
             THEN [saws |-> [S1 EXCEPT ![c].invoked = Append(@, p.action)],
                   run |-> Running("op", c, p.action)]
             ELSE [saws |-> [S1 EXCEPT ![c].failed = Append(@, p.action)],
                   run |-> Running("typeerror", c, p.action)]
        ELSE [saws |-> S1, run |-> Idle]

\* ------------------------------------------------------------------ inputs
Names == {"a", "add"}

ReplayCalls ==
    {Call("add", 1, "")}
    \cup {Call("do", 0, cb) : cb \in {"cbAdd", "cbTrap", "cbHold", "cbNest"}}
    \cup {Call("fork", 0, "cbAdd")}
    \cup {Call("trap", 0, "a")}
    \cup {Call("down", 0, "add")}
    \cup {Call("jump", 2, "")}
    \cup {Call("record", 0, "")}
    \cup {Call("gone", 0, "")}

AddDoCalls ==
    {Call("add", 5, ""), Call("add", 10, ""), Call("do", 0, "fn"), Call("do", 0, "fn2")}

RECURSIVE SeqsUpTo(_, _)
SeqsUpTo(S, n) ==
    IF n = 0 THEN {<<>>}
    ELSE LET shorter == SeqsUpTo(S, n - 1)
         IN  shorter \cup {Append(q, x) : q \in shorter, x \in S}

\* the fluent calls a nest callback makes on its chain, given the argument it receives
Callback(cb, arg) ==
    CASE cb = "fn"     -> IF arg > 12 THEN <<Call("add", -10, "")>> ELSE <<>>
      [] cb = "fn2"    -> <<>>
      [] cb = "cbAdd"  -> <<Call("add", 1, "")>>
      [] cb = "cbTrap" -> <<Call("trap", 0, "a"), Call("down", 0, "add")>>
      [] cb = "cbHold" -> <<Call("trap", 0, "a")>>
      [] cb = "cbNest" -> <<Call("do", 0, "cbAdd"), Call("add", 1, "")>>
      [] OTHER         -> <<>>

\* -------------------------------------------------------------------- init
\* The state after chainsaw(builder) or chainsaw.light(builder) returned the
\* chain: saw 1 exists, its begin/next is scheduled, the caller is about to
\* issue its fluent calls.
InitFuel(programs, sums, calls) ==
    /\ \E rec \in BOOLEAN, prog \in programs, s0 \in sums :
        /\ saws = [c \in Chains |->
                     IF c = 1
                     THEN IF rec THEN UpgradeChainsaw(NewSaw(0, prog)) ELSE NewSaw(0, prog)
                     ELSE NoSaw]
        /\ sum = s0
        /\ input = [sum |-> s0, calls |-> prog]
    /\ pc = Running("burst", 1, Undefined)
    /\ ticks = <<1>>
    /\ fuel = calls
    /\ cbLog = <<>>
    /\ lastDown = [chain |-> 0]
    /\ lastJump = [chain |-> 0]

InitWith(programs, sums) == InitFuel(programs, sums, MaxReplay)

Init == InitWith(SeqsUpTo(ReplayCalls, MaxCalls), {0})

\* ----------------------------------------------------------------- actions
\* mutant: every chain's proxies push onto the top-level queue
EnqueueShared(c) ==
    /\ pc.kind = "burst" /\ pc.chain = c
    /\ saws[c].todo # <<>>
    /\ LET call == Head(saws[c].todo)
           rec == ActionRecord(call, Len(saws[1].issued) + 1)
       IN  saws' = [[saws EXCEPT ![c].todo = Tail(@)]
                       EXCEPT ![1].actions = Append(@, rec), ![1].issued = Append(@, rec)]
    /\ UNCHANGED <<pc, ticks, sum, fuel, cbLog, lastDown, lastJump, input>>

\* A proxied function of the chain: push {path, args}, return the chain.
Enqueue(c) ==
    /\ pc.kind = "burst" /\ pc.chain = c
    /\ saws[c].todo # <<>>
    /\ LET call == Head(saws[c].todo)
           rec == ActionRecord(call, Len(saws[c].issued) + 1)
       IN  saws' = [saws EXCEPT ![c].actions = Append(@, rec),
                                ![c].issued = Append(@, rec),
                                ![c].todo = Tail(@)]
    /\ UNCHANGED <<pc, ticks, sum, fuel, cbLog, lastDown, lastJump, input>>

\* mutant: chain() begins at once instead of on the next tick
TickEager ==
    /\ ticks # <<>>
    /\ pc.kind \in {"idle", "burst"}
    /\ LET c == Head(ticks)
           r == SawNext([saws EXCEPT ![c].begun = @ + 1], c)
       IN  /\ saws' = r.saws
           /\ pc' = r.run
    /\ ticks' = Tail(ticks)
    /\ UNCHANGED <<sum, fuel, cbLog, lastDown, lastJump, input>>

\* The nextTick callback of saw.chain: emit 'begin', then saw.next().
Tick ==
    /\ pc.kind = "idle"
    /\ ticks # <<>>
    /\ LET c == Head(ticks)
           r == SawNext([saws EXCEPT ![c].begun = @ + 1], c)
       IN  /\ saws' = r.saws
           /\ pc' = r.run
    /\ ticks' = Tail(ticks)
    /\ UNCHANGED <<sum, fuel, cbLog, lastDown, lastJump, input>>

\* this.add of the AddDo builder: sum += n; saw.next()
OpAdd(c) ==
    /\ pc.kind = "op" /\ pc.chain = c /\ pc.rec.path = <<"add">>
    /\ sum' = sum + pc.rec.args.num
    /\ LET r == SawNext(saws, c)
       IN  /\ saws' = r.saws
           /\ pc' = r.run
    /\ UNCHANGED <<ticks, fuel, cbLog, lastDown, lastJump, input>>

\* User code finished its synchronous burst of fluent calls on the top-level chain.
CallerDone(c) ==
    /\ pc.kind = "burst" /\ pc.chain = c
    /\ saws[c].todo = <<>>
    /\ saws[c].parent = 0
    /\ pc' = Idle
    /\ UNCHANGED <<saws, ticks, sum, fuel, cbLog, lastDown, lastJump, input>>

\* mutant: nest forgets s.record() for the children of a recording chain
SawNestLight(S, c, s, autonext, calls) ==
    [S EXCEPT ![s] = [NewSaw(c, calls) EXCEPT !.autonext = autonext,
                                              !.nestAt = Len(S[c].invoked)]]

\* saw.nest up to the call of its callback: a new saw from the same builder,
\* recording if the parent records, its begin/next scheduled by s.chain().
SawNest(S, c, s, autonext, calls) ==
    LET fresh == NewSaw(c, calls)
        child == IF S[c].recording THEN UpgradeChainsaw(fresh) ELSE fresh
    IN  [S EXCEPT ![s] = [child EXCEPT !.autonext = autonext,
                                       !.nestAt = Len(S[c].invoked)]]

FreeChains == {s \in Chains : ~saws[s].exists}
NewChain == CHOOSE s \in FreeChains : \A t \in FreeChains : s <= t

\* the nest(cb, sum) / nest(false, cb, sum) call of an operation
NestCall(c, autonext) ==
    /\ FreeChains # {}
    /\ LET s == NewChain
           cb == pc.rec.args.str
       IN  /\ saws' = SawNest(saws, c, s, autonext, Callback(cb, sum))
           /\ ticks' = Append(ticks, s)
           /\ pc' = Running("burst", s, Undefined)
           /\ cbLog' = Append(cbLog, [cb |-> cb, arg |-> sum, chain |-> s])
    /\ UNCHANGED <<sum, fuel, lastDown, lastJump, input>>

\* this.do of the AddDo builder: saw.nest(cb, sum)
OpDo(c) ==
    /\ pc.kind = "op" /\ pc.chain = c /\ pc.rec.path = <<"do">>
    /\ NestCall(c, TRUE)

\* an operation that nests without auto-advance: saw.nest(false, cb, sum)
OpFork(c) ==
    /\ pc.kind = "op" /\ pc.chain = c /\ pc.rec.path = <<"fork">>
    /\ NestCall(c, FALSE)

\* mutant: nest never registers the parent's next on the child's 'end'
NestReturnNoListen(c) ==
    /\ pc.kind = "burst" /\ pc.chain = c
    /\ saws[c].todo = <<>>
    /\ saws[c].parent # 0
    /\ saws' = [saws EXCEPT ![c].listening = FALSE]
    /\ pc' = Idle
    /\ UNCHANGED <<ticks, sum, fuel, cbLog, lastDown, lastJump, input>>

\* mutant: nest registers the parent's next whatever autonext says
NestReturnListen(c) ==
    /\ pc.kind = "burst" /\ pc.chain = c
    /\ saws[c].todo = <<>>
    /\ saws[c].parent # 0
    /\ saws' = [saws EXCEPT ![c].listening = TRUE]
    /\ pc' = Idle
    /\ UNCHANGED <<ticks, sum, fuel, cbLog, lastDown, lastJump, input>>

\* The callback of nest returned: if (autonext !== false) s.on('end', saw.next);
\* nest and the operation that called it return.
NestReturn(c) ==
    /\ pc.kind = "burst" /\ pc.chain = c
    /\ saws[c].todo = <<>>
    /\ saws[c].parent # 0
    /\ saws' = [saws EXCEPT ![c].listening = saws[c].autonext]
    /\ pc' = Idle
    /\ UNCHANGED <<ticks, sum, fuel, cbLog, lastDown, lastJump, input>>

\* mutant: the stub runs on instead of throwing
ThrowSwallowed(c) ==
    /\ LET r == SawNext(saws, c)
       IN  /\ saws' = r.saws
           /\ pc' = r.run
    /\ UNCHANGED <<ticks, sum, fuel, cbLog, lastDown, lastJump, input>>

\* The stub trap/down/jump of chainsaw.saw: throw the usage error.  Nothing
\* catches it, so the call stack unwinds and the process stops.
Throw(c) ==
    /\ pc' = Running("thrown", c, pc.rec)
    /\ UNCHANGED <<saws, ticks, sum, fuel, cbLog, lastDown, lastJump, input>>

\* saw.trap of upgradeChainsaw: push a trap record tagged with the cursor
SawTrap(s, name, cb) ==
    LET rec == TrapRecord(name, s.step, cb, Len(s.issued) + 1)
    IN  [s EXCEPT !.actions = Append(@, rec), !.issued = Append(@, rec),
                  !.replays = Append(@, [op |-> "trap", num |-> 0])]

\* an operation that registers a trap and goes on: saw.trap(name, cb); saw.next()
OpTrap(c) ==
    /\ pc.kind = "op" /\ pc.chain = c /\ pc.rec.path = <<"trap">>
    /\ IF saws[c].recording
       THEN /\ LET r == SawNext([saws EXCEPT ![c] = SawTrap(@, pc.rec.args.str, "resume")], c)
               IN  /\ saws' = r.saws
                   /\ pc' = r.run
            /\ UNCHANGED <<ticks, sum, fuel, cbLog, lastDown, lastJump, input>>
       ELSE Throw(c)

\* saw.down's search: the offset in actions.slice(step) of the first record
\* whose path is ps, a trap registered at or before the cursor never matching
DownIndex(s, ps) ==
    LET Match(x) == IF x.trap /\ x.step <= s.step THEN FALSE ELSE x.path = ps
        hits == {k \in (s.step + 1)..Len(s.actions) : Match(s.actions[k])}
    IN  IF hits = {} THEN -1
        ELSE (CHOOSE k \in hits : \A j \in hits : k <= j) - (s.step + 1)

\* the cursor saw.down leaves before it looks at the record behind it
DownStep(s, ps) ==
    LET i == DownIndex(s, ps)
    IN  IF i >= 0 THEN s.step + i ELSE Len(s.actions)

\* saw.actions[saw.step - 1] after the search
DownAct(s, ps) ==
    LET st == DownStep(s, ps)
    IN  IF st - 1 >= 0 /\ st - 1 < Len(s.actions) THEN s.actions[st] ELSE Undefined

\* saw.down of upgradeChainsaw on chain c
SawDown(c, name) ==
    LET s == saws[c]
        ps == <<name>>
        st == DownStep(s, ps)
        act == DownAct(s, ps)
        fires == act # Undefined /\ act.trap
        called == Append(s.replays, [op |-> "down", num |-> 0])
        r == IF fires
             THEN [saws |-> [saws EXCEPT ![c].step = act.step, ![c].replays = called],
                   run |-> Running("trapcb", c, act)]
             ELSE SawNext([saws EXCEPT ![c].step = st, ![c].replays = called], c)
    IN  /\ saws' = r.saws
        /\ pc' = r.run
        /\ lastDown' = [chain |-> c, name |-> name, from |-> s.step, located |-> st,
                        fired |-> fires, act |-> act, queue |-> s.actions,
                        cursor |-> r.saws[c].step, run |-> r.run,
                        ended |-> r.saws[c].ends # s.ends]
        /\ fuel' = fuel - 1
        /\ UNCHANGED <<ticks, sum, cbLog, lastJump, input>>

\* an operation that resumes at a named step: saw.down(name)
OpDown(c) ==
    /\ pc.kind = "op" /\ pc.chain = c /\ pc.rec.path = <<"down">>
    /\ IF saws[c].recording
       THEN fuel > 0 /\ SawDown(c, pc.rec.args.str)
       ELSE Throw(c)

\* a trap's callback, invoked by down: it resumes the chain with saw.next()
TrapCb(c) ==
    /\ pc.kind = "trapcb" /\ pc.chain = c
    /\ LET r == SawNext(saws, c)
       IN  /\ saws' = r.saws
           /\ pc' = r.run
    /\ UNCHANGED <<ticks, sum, fuel, cbLog, lastDown, lastJump, input>>

\* mutant: jump resumes one record late
SawJumpLate(c, step) ==
    LET s == saws[c]
        r == SawNext([saws EXCEPT ![c].step = step + 1,
                                  ![c].replays = Append(@, [op |-> "jump", num |-> step]),
                                  ![c].wild = @ \/ step < 0 \/ step >= Len(s.actions)], c)
    IN  /\ saws' = r.saws
        /\ pc' = r.run
        /\ lastJump' = [chain |-> c, step |-> step, queue |-> s.actions,
                        cursor |-> r.saws[c].step, run |-> r.run,
                        invoked |-> SubSeq(r.saws[c].invoked, Len(s.invoked) + 1,
                                           Len(r.saws[c].invoked)),
                        ended |-> r.saws[c].ends # s.ends]
        /\ fuel' = fuel - 1
        /\ UNCHANGED <<ticks, sum, cbLog, lastDown, input>>

\* saw.jump of upgradeChainsaw on chain c: saw.step = step; saw.next()
SawJump(c, step) ==
    LET s == saws[c]
        r == SawNext([saws EXCEPT ![c].step = step,
                                  ![c].replays = Append(@, [op |-> "jump", num |-> step]),
                                  ![c].wild = @ \/ step < 0 \/ step >= Len(s.actions)], c)
    IN  /\ saws' = r.saws
        /\ pc' = r.run
        /\ lastJump' = [chain |-> c, step |-> step, queue |-> s.actions,
                        cursor |-> r.saws[c].step, run |-> r.run,
                        invoked |-> SubSeq(r.saws[c].invoked, Len(s.invoked) + 1,
                                           Len(r.saws[c].invoked)),
                        ended |-> r.saws[c].ends # s.ends]
        /\ fuel' = fuel - 1
        /\ UNCHANGED <<ticks, sum, cbLog, lastDown, input>>

\* an operation that repositions the cursor: saw.jump(step)
OpJump(c) ==
    /\ pc.kind = "op" /\ pc.chain = c /\ pc.rec.path = <<"jump">>
    /\ IF saws[c].recording
       THEN fuel > 0 /\ SawJump(c, pc.rec.args.num)
       ELSE Throw(c)

\* an operation that turns recording on: saw.record(); saw.next()
OpRecord(c) ==
    /\ pc.kind = "op" /\ pc.chain = c /\ pc.rec.path = <<"record">>
    /\ fuel > 0
    /\ LET r == SawNext([saws EXCEPT ![c] = UpgradeChainsaw(@)], c)
       IN  /\ saws' = r.saws
           /\ pc' = r.run
    /\ fuel' = fuel - 1
    /\ UNCHANGED <<ticks, sum, cbLog, lastDown, lastJump, input>>

\* Code outside the chain (a listener of 'end', a later event) calls
\* saw.jump(step) on a chain that has signalled 'end', while nothing else runs.
ExtJump(c, step) ==
    /\ pc.kind = "idle" /\ ticks = <<>>
    /\ saws[c].exists /\ saws[c].ends > 0
    /\ IF saws[c].recording
       THEN fuel > 0 /\ SawJump(c, step)
       ELSE Throw(c)

\* Code outside the chain calls saw.down(name) on a chain that has signalled 'end'.
ExtDown(c, name) ==
    /\ pc.kind = "idle" /\ ticks = <<>>
    /\ saws[c].exists /\ saws[c].ends > 0
    /\ IF saws[c].recording
       THEN fuel > 0 /\ SawDown(c, name)
       ELSE Throw(c)

\* Code outside the chain (an operation's late callback) calls saw.trap on a
\* chain that has signalled 'end'.
ExtTrap(c, name) ==
    /\ pc.kind = "idle" /\ ticks = <<>>
    /\ saws[c].exists /\ saws[c].ends > 0
    /\ IF saws[c].recording
       THEN /\ fuel > 0
            /\ saws' = [saws EXCEPT ![c] = SawTrap(@, name, "resume")]
            /\ fuel' = fuel - 1
            /\ UNCHANGED <<pc, ticks, sum, cbLog, lastDown, lastJump, input>>
       ELSE Throw(c)

\* Code outside the chain makes one more fluent call, add(1), on a chain that
\* has signalled 'end': the proxied function pushes its record.
ExtEnqueue(c) ==
    /\ pc.kind = "idle" /\ ticks = <<>>
    /\ saws[c].exists /\ saws[c].ends > 0
    /\ fuel > 0
    /\ LET rec == ActionRecord(Call("add", 1, ""), Len(saws[c].issued) + 1)
       IN  saws' = [saws EXCEPT ![c].actions = Append(@, rec),
                                ![c].issued = Append(@, rec),
                                ![c].late = Append(@, "enqueue")]
    /\ fuel' = fuel - 1
    /\ UNCHANGED <<pc, ticks, sum, cbLog, lastDown, lastJump, input>>

\* Code outside the chain calls saw.next() on a chain that has signalled 'end'.
ExtNext(c) ==
    /\ pc.kind = "idle" /\ ticks = <<>>
    /\ saws[c].exists /\ saws[c].ends > 0
    /\ fuel > 0
    /\ LET r == SawNext([saws EXCEPT ![c].late = Append(@, "next")], c)
       IN  /\ saws' = r.saws
           /\ pc' = r.run
    /\ fuel' = fuel - 1
    /\ UNCHANGED <<ticks, sum, cbLog, lastDown, lastJump, input>>

Next ==
    \/ \E c \in Chains : Enqueue(c)
    \/ \E c \in Chains : CallerDone(c)
    \/ Tick
    \/ \E c \in Chains : OpAdd(c)
    \/ \E c \in Chains : OpDo(c)
    \/ \E c \in Chains : OpFork(c)
    \/ \E c \in Chains : NestReturn(c)
    \/ \E c \in Chains : OpTrap(c)
    \/ \E c \in Chains : OpDown(c)
    \/ \E c \in Chains : TrapCb(c)
    \/ \E c \in Chains : OpJump(c)
    \/ \E c \in Chains : OpRecord(c)
    \/ \E c \in Chains, step \in {-1, 0, FarStep} : ExtJump(c, step)

Spec == Init /\ [][Next]_vars

\* the README's AddDo programs: add and do only
InitAddDo == InitWith(SeqsUpTo(AddDoCalls, MaxAddDoCalls), {-5, 0})

NextAddDo ==
    \/ \E c \in Chains : Enqueue(c)
    \/ \E c \in Chains : CallerDone(c)
    \/ Tick
    \/ \E c \in Chains : OpAdd(c)
    \/ \E c \in Chains : OpDo(c)
    \/ \E c \in Chains : NestReturn(c)

\* pending ticks and synchronous code always run: the event loop never stops
\* while work is scheduled
SpecAddDo == InitAddDo /\ [][NextAddDo]_vars /\ WF_vars(NextAddDo)

\* Chains that code outside keeps calling after their 'end': it enqueues more
\* calls and calls next, jump and down on the controller.
OutsideCalls ==
    {Call("add", 1, ""), Call("trap", 0, "a"), Call("jump", FarStep, "")}

InitOutside == InitFuel(SeqsUpTo(OutsideCalls, MaxCalls), {0}, MaxOutside)

NextOutside ==
    \/ \E c \in Chains : Enqueue(c)
    \/ \E c \in Chains : CallerDone(c)
    \/ Tick
    \/ \E c \in Chains : OpAdd(c)
    \/ \E c \in Chains : OpTrap(c)
    \/ \E c \in Chains : OpJump(c)
    \/ \E c \in Chains : TrapCb(c)
    \/ \E c \in Chains, step \in {-1, 0} : ExtJump(c, step)
    \/ \E c \in Chains, name \in Names : ExtDown(c, name)
    \/ \E c \in Chains : ExtTrap(c, "a")
    \/ \E c \in Chains : ExtEnqueue(c)
    \/ \E c \in Chains : ExtNext(c)

SpecOutside == InitOutside /\ [][NextOutside]_vars

\* ------------------------------------------------------------------ claims
Live == {c \in Chains : saws[c].exists}

IsPrefix(p, q) == Len(p) <= Len(q) /\ p = SubSeq(q, 1, Len(p))

\* every operation called on chain c so far only calls next(), once (add),
\* and trap, down, jump were never used on it
PlainChain(c) ==
    /\ saws[c].exists
    /\ saws[c].replays = <<>> /\ saws[c].late = <<>>
    /\ \A k \in 1..Len(saws[c].issued) : saws[c].issued[k].path = <<"add">>

\* C1: on a chain whose operations each call next() once, in light mode and
\* in recording mode without trap/down/jump, the operations invoked are the
\* records issued, in the order issued, each once (a prefix of the issued
\* sequence while it runs, all of it once 'end' is signalled).
C1_InOrderOnce ==
    \A c \in Live : PlainChain(c) =>
        /\ IsPrefix(saws[c].invoked, saws[c].issued)
        /\ saws[c].ends > 0 => saws[c].invoked = saws[c].issued

C1_Witness ==
    \E c \in Live :
        /\ PlainChain(c) /\ ~saws[c].recording
        /\ saws[c].ends > 0
        /\ Len(saws[c].issued) >= 3
        /\ saws[c].invoked = saws[c].issued

C1_WitnessRecording ==
    \E c \in Live :
        /\ PlainChain(c) /\ saws[c].recording
        /\ saws[c].ends > 0
        /\ Len(saws[c].issued) >= 3
        /\ saws[c].invoked = saws[c].issued

\* C2: a proxied call only appends one record to its own chain's queue; no
\* operation of a chain is invoked and no 'end' is signalled before its
\* 'begin'; 'begin' is emitted once, after the burst that created the chain
\* has queued all its calls.
C2_DeferredState ==
    \A c \in Live :
        /\ saws[c].begun <= 1
        /\ saws[c].begun = 0 => saws[c].invoked = <<>> /\ saws[c].ends = 0
        /\ saws[c].begun = 1 =>
              /\ saws[c].todo = <<>>
              /\ ~(pc.kind = "burst" /\ pc.chain = c)

C2_CallOnlyAppends ==
    \A c \in Chains :
        (pc.kind = "burst" /\ pc.chain = c /\ saws[c].todo # <<>>) =>
            /\ pc' = pc
            /\ saws'[c].actions = Append(saws[c].actions, ActionRecord(Head(saws[c].todo), Len(saws[c].issued) + 1))
            /\ saws'[c].invoked = <<>>
            /\ \A d \in Chains \ {c} : saws'[d] = saws[d]
            /\ UNCHANGED <<ticks, sum, cbLog>>

C2_Deferred == [](C2_DeferredState) /\ [][C2_CallOnlyAppends]_vars

C2_Witness ==
    \E c \in Live :
        /\ saws[c].parent # 0
        /\ saws[c].begun = 1
        /\ Len(saws[c].issued) >= 2
        /\ Len(saws[c].invoked) = 1

\* C3 as claimed: while a chain nested with auto-advance by an operation that
\* does not call next() itself has not signalled 'end', the parent has invoked
\* no operation beyond the one that called nest.
C3_ParentSuspended ==
    \A s \in Live :
        (saws[s].parent # 0 /\ saws[s].autonext /\ saws[s].ends = 0) =>
            Len(saws[saws[s].parent].invoked) = saws[s].nestAt

\* what the code keeps of C3: the parent stays suspended as long as no chain
\* nested under it earlier signals 'end' a second time
C3_SuspendedUntilRepeatedEnd ==
    \A s \in Live :
        (/\ saws[s].parent # 0 /\ saws[s].autonext /\ saws[s].ends = 0
         /\ \A x \in Live : saws[x].parent = saws[s].parent => saws[x].ends <= 1) =>
            Len(saws[saws[s].parent].invoked) = saws[s].nestAt

\* C4: the README run add(5).add(10).do(fn).do(fn2) from 0 ends with the
\* accumulator at 5; fn receives 15, fn2 receives 5; fn2 runs once, and only
\* when the three adds (5, 10, -10) have run.
AddDoChain ==
    <<Call("add", 5, ""), Call("add", 10, ""), Call("do", 0, "fn"), Call("do", 0, "fn2")>>

IsAddDo == input = [sum |-> 0, calls |-> AddDoChain]

Quiescent == pc.kind = "idle" /\ ticks = <<>>

RECURSIVE AddsIn(_)
AddsIn(q) ==
    IF q = <<>> THEN 0
    ELSE (IF Head(q).path = <<"add">> THEN 1 ELSE 0) + AddsIn(Tail(q))

RECURSIVE AddsRun(_)
AddsRun(cs) ==
    IF cs = {} THEN 0
    ELSE LET c == CHOOSE x \in cs : TRUE
         IN  AddsIn(saws[c].invoked) + AddsRun(cs \ {c})

\* add operations that have completed: those invoked, less the one still running
AddsDone == AddsRun(Chains) - (IF pc.kind = "op" /\ pc.rec.path = <<"add">> THEN 1 ELSE 0)

AddDoResult ==
    /\ sum = 5
    /\ cbLog = <<[cb |-> "fn", arg |-> 15, chain |-> 2], [cb |-> "fn2", arg |-> 5, chain |-> 3]>>
    /\ AddsDone = 3
    /\ saws[1].ends = 1 /\ saws[1].invoked = saws[1].issued

AddDoSafe ==
    /\ \A k \in 1..Len(cbLog) :
          /\ cbLog[k].cb = "fn" => k = 1 /\ cbLog[k].arg = 15
          /\ cbLog[k].cb = "fn2" => k = 2 /\ cbLog[k].arg = 5 /\ AddsDone = 3
    /\ Quiescent => AddDoResult

C4_AddDo == [](IsAddDo => AddDoSafe) /\ (IsAddDo ~> (Quiescent /\ AddDoResult))

C4_Witness == IsAddDo /\ Quiescent /\ AddDoResult

ReplayPaths == {<<"trap">>, <<"down">>, <<"jump">>}

\* C5: on a chain on which record() was never called, a call of trap, down or
\* jump throws the usage error and does nothing else: no saw changes (queues,
\* cursors, invocations, 'end' counts), no callback runs, nothing is scheduled.
C5_StubThrows ==
    /\ (pc.kind = "op" /\ pc.rec.path \in ReplayPaths /\ ~saws[pc.chain].recording)
          => pc'.kind = "thrown" /\ pc'.chain = pc.chain
    /\ (pc.kind # "thrown" /\ pc'.kind = "thrown")
          => /\ ~saws[pc'.chain].recording
             /\ UNCHANGED <<saws, ticks, sum, cbLog, lastDown, lastJump>>

C5_LightNeverReplays ==
    \A c \in Live : ~saws[c].recording =>
        /\ saws[c].replays = <<>>
        /\ \A k \in 1..Len(saws[c].actions) : ~saws[c].actions[k].trap
        /\ lastDown.chain # c /\ lastJump.chain # c
        /\ ~(pc.kind = "trapcb" /\ pc.chain = c)

C5_LightReplayFails == [](C5_LightNeverReplays) /\ [][C5_StubThrows]_vars

C5_Witness ==
    /\ pc.kind = "thrown"
    /\ saws[pc.chain].parent # 0
    /\ pc.rec.path = <<"trap">>
    /\ saws[pc.chain].actions # <<>>

\* n copies of q, one after the other
RECURSIVE Repeat(_, _)
Repeat(q, n) == IF n = 0 THEN <<>> ELSE q \o Repeat(q, n - 1)

\* chain c records, holds only operations that call next() once, and all that
\* was done to it besides is jump(0) called after an 'end'
ReplayedFromStart(c) ==
    /\ saws[c].exists /\ saws[c].recording
    /\ saws[c].late = <<>>
    /\ \A k \in 1..Len(saws[c].issued) : saws[c].issued[k].path = <<"add">>
    /\ \A k \in 1..Len(saws[c].replays) : saws[c].replays[k] = [op |-> "jump", num |-> 0]

\* C6: on such a chain every jump(0) after 'end' runs the whole recorded
\* sequence again: after k replays the operations invoked are the issued
\* records k+1 times over (a prefix of that while running), and each complete
\* run is followed by one more 'end'.
C6_ReplayFromZero ==
    \A c \in Live : ReplayedFromStart(c) =>
        LET k == Len(saws[c].replays)
            all == Repeat(saws[c].issued, k + 1)
        IN  /\ IsPrefix(saws[c].invoked, all)
            /\ saws[c].actions = saws[c].issued
            /\ saws[c].ends <= k + 1
            /\ saws[c].ends = k + 1 <=> (saws[c].invoked = all /\ saws[c].begun = 1
                                          /\ ~(pc.kind = "op" /\ pc.chain = c))

C6_Witness ==
    \E c \in Live :
        /\ ReplayedFromStart(c)
        /\ Len(saws[c].replays) = 1 /\ saws[c].ends = 2
        /\ Len(saws[c].issued) >= 2
        /\ saws[c].invoked = saws[c].issued \o saws[c].issued

\* C7 as claimed: down(n) fires a trap only if n is the trap's name (and the
\* trap was registered at or before the place down located).
C7_FiresOnlyItsName ==
    (lastDown.chain # 0 /\ lastDown.fired) =>
        /\ lastDown.act.path = <<lastDown.name>>
        /\ lastDown.act.step <= lastDown.located

\* the part of C7 the code keeps: a trap that fires rewinds the cursor to its
\* registration step before its callback runs
C7_FiredRewinds ==
    (lastDown.chain # 0 /\ lastDown.fired) =>
        /\ lastDown.act.trap
        /\ lastDown.cursor = lastDown.act.step

\* C8: jump(s) with 0 <= s < N onto an action record whose path resolves
\* invokes exactly that record next and none below s; jump(s) with s outside 0..N-1 invokes no
\* operation of the chain and signals 'end'.
C8_Jump ==
    lastJump.chain # 0 =>
        LET q == lastJump.queue
            s == lastJump.step
        IN  /\ (0 <= s /\ s < Len(q) /\ ~q[s + 1].trap /\ q[s + 1].path \in Surface) =>
                  /\ lastJump.invoked = <<q[s + 1]>>
                  /\ lastJump.run = Running("op", lastJump.chain, q[s + 1])
                  /\ ~lastJump.ended
                  /\ lastJump.cursor = s + 1
            /\ (s < 0 \/ s >= Len(q)) =>
                  /\ lastJump.invoked = <<>>
                  /\ lastJump.ended
                  /\ lastJump.run.chain # lastJump.chain

C8_Witness ==
    /\ lastJump.chain # 0
    /\ lastJump.step = 2 /\ Len(lastJump.queue) >= 3
    /\ lastJump.invoked = <<lastJump.queue[3]>>
    /\ pc = lastJump.run
    /\ \A k \in 1..Len(saws[lastJump.chain].invoked) :
           saws[lastJump.chain].invoked[k] # lastJump.queue[2]

C8_WitnessOutOfRange ==
    /\ lastJump.chain # 0
    /\ lastJump.step = FarStep /\ lastJump.queue # <<>>
    /\ lastJump.ended

\* the chain whose controller or proxy the step runs on
ActsOn(c) ==
    \/ pc.kind # "idle" /\ pc.chain = c
    \/ pc.kind = "idle" /\ ticks # <<>> /\ Head(ticks) = c
    \/ pc.kind = "idle" /\ ticks = <<>>
          /\ (saws'[c].replays # saws[c].replays \/ saws'[c].late # saws[c].late)

\* chain d was resumed by the 'end' of a chain nested under it: one next()
ResumedByChild(d) ==
    /\ \E x \in Chains : /\ saws[x].exists /\ saws[x].parent = d /\ saws[x].listening
                         /\ saws'[x].ends = saws[x].ends + 1
    /\ saws'[d].actions = Pop(saws[d]).saw.actions
    /\ saws'[d].step = Pop(saws[d]).saw.step

\* C9: a step changes the queue or cursor of no chain but the one it acts on,
\* except that a child's 'end' runs one next() of its parent; a chain's queue
\* is only ever appended to by its own proxies and its own trap.
C9_Frame ==
    \A d \in Chains :
        (saws'[d].actions # saws[d].actions \/ saws'[d].step # saws[d].step) =>
            \/ ActsOn(d)
            \/ ~ActsOn(d) /\ ResumedByChild(d)

C9_Disjoint == [][C9_Frame]_vars

C9_Witness ==
    \E s \in Live :
        /\ saws[s].parent # 0
        /\ lastDown.chain = s /\ lastDown.fired
        /\ Len(saws[s].actions) = 3
        /\ saws[saws[s].parent].recording
        /\ Len(saws[saws[s].parent].actions) >= 2
        /\ saws[saws[s].parent].step = 1

\* C10: while the callback of nest runs, the nested chain records exactly if
\* its parent does; a chain's mode only changes by its own record() call, and
\* never back to light.
C10_Inherited ==
    \A s \in Live :
        (pc.kind = "burst" /\ pc.chain = s /\ saws[s].parent # 0) =>
            saws[s].recording = saws[saws[s].parent].recording

C10_ModeFrame ==
    \A d \in Chains :
        saws'[d].recording # saws[d].recording =>
            /\ saws[d].exists => (pc.kind = "op" /\ pc.chain = d /\ pc.rec.path = <<"record">>)
            /\ saws'[d].recording
            /\ ~saws[d].exists => (pc.kind = "op" /\ saws'[d].parent = pc.chain
                                   /\ saws[pc.chain].recording)

C10_RecordingDownward == [](C10_Inherited) /\ [][C10_ModeFrame]_vars

C10_Witness ==
    \E s \in Live :
        /\ pc.kind = "burst" /\ pc.chain = s
        /\ saws[s].parent # 0 /\ saws[saws[s].parent].parent # 0
        /\ saws[s].recording
        /\ saws[s].issued # <<>>

\* chain c holds only add calls, some of them made from outside after an
\* 'end', and nothing was done to it besides enqueueing and calling next()
AddsOnly(c) ==
    /\ saws[c].exists
    /\ saws[c].replays = <<>>
    /\ \A k \in 1..Len(saws[c].issued) : saws[c].issued[k].path = <<"add">>

\* the calls of kind op (enqueue or next) made on chain c from outside
LateCalls(c, op) == {k \in 1..Len(saws[c].late) : saws[c].late[k] = op}

\* the last outside call on chain c was next(), and the run it started is over
Redrained(c) ==
    /\ saws[c].ends > 0
    /\ saws[c].late # <<>> /\ saws[c].late[Len(saws[c].late)] = "next"
    /\ LateCalls(c, "enqueue") # {}
    /\ ~(pc.kind # "idle" /\ pc.chain = c)

\* C11 as claimed: when actions are enqueued on a chain after its 'end' and
\* next() is called again, the new actions are executed, in order, and 'end'
\* is signalled once more for that next(), in light and in recording mode.
C11_EndRefires ==
    \A c \in Live :
        AddsOnly(c) =>
            /\ IsPrefix(saws[c].invoked, saws[c].issued)
            /\ Redrained(c) =>
                   /\ saws[c].invoked = saws[c].issued
                   /\ saws[c].ends = 1 + Cardinality(LateCalls(c, "next"))

\* what the code keeps of C11: the claim for the chains that do not record
C11_LightEndRefires ==
    \A c \in Live :
        (AddsOnly(c) /\ ~saws[c].recording) =>
            /\ IsPrefix(saws[c].invoked, saws[c].issued)
            /\ Redrained(c) =>
                   /\ saws[c].invoked = saws[c].issued
                   /\ saws[c].ends = 1 + Cardinality(LateCalls(c, "next"))

C11_LightWitness ==
    \E c \in Live :
        /\ AddsOnly(c) /\ ~saws[c].recording /\ Redrained(c)
        /\ saws[c].ends = 2 /\ Len(saws[c].issued) = 2

\* C12: a recording chain never removes or reorders a record: its queue only
\* grows at the end, and an invocation takes the record at the cursor and
\* moves the cursor one past it.  A light chain loses a record only to a
\* next(), which removes exactly the head and consumes it, so that its queue
\* is always what was enqueued and not yet consumed.
C12_LightQueue ==
    \A c \in Live :
        ~saws[c].recording =>
            saws[c].issued = saws[c].invoked \o saws[c].failed \o saws[c].actions

C12_Step ==
    \A c \in Chains :
        /\ saws'[c].recording =>
              /\ IsPrefix(saws[c].actions, saws'[c].actions)
              /\ saws'[c].invoked # saws[c].invoked =>
                    /\ saws'[c].step \in 1..Len(saws'[c].actions)
                    /\ saws'[c].invoked =
                           Append(saws[c].invoked, saws'[c].actions[saws'[c].step])
        /\ (saws[c].exists /\ ~saws'[c].recording) =>
              /\ Len(saws'[c].actions) < Len(saws[c].actions) =>
                    /\ saws'[c].actions = Tail(saws[c].actions)
                    /\ \/ saws'[c].invoked = Append(saws[c].invoked, Head(saws[c].actions))
                       \/ saws'[c].failed = Append(saws[c].failed, Head(saws[c].actions))
              /\ (saws'[c].invoked # saws[c].invoked /\ saws[c].actions # <<>>) =>
                    saws'[c].actions = Tail(saws[c].actions)

C12_Retention == [](C12_LightQueue) /\ [][C12_Step]_vars

C12_Witness ==
    \E c \in Live :
        /\ saws[c].recording /\ saws[c].ends > 0
        /\ Len(saws[c].invoked) = 3
        /\ saws[c].actions = saws[c].issued /\ Len(saws[c].actions) = 3
        /\ saws[c].step = 4

C12_WitnessLight ==
    \E c \in Live :
        /\ ~saws[c].recording /\ saws[c].ends = 0
        /\ Len(saws[c].invoked) = 2 /\ Len(saws[c].actions) = 1

\* every operation called on any chain so far calls next() once (add, trap)
\* or nests with autoAdvance (do); down and jump were never called, and
\* nothing was called from outside
NextOnceOrNest ==
    \A c \in Live :
        /\ \A k \in 1..Len(saws[c].issued) :
               \/ saws[c].issued[k].trap
               \/ saws[c].issued[k].path \in {<<"add">>, <<"do">>, <<"trap">>}
        /\ \A k \in 1..Len(saws[c].replays) : saws[c].replays[k].op = "trap"
        /\ saws[c].late = <<>>

AllInvoked ==
    \A c \in Live :
        \A k \in 1..Len(saws[c].issued) :
            \/ saws[c].issued[k].trap
            \/ \E j \in 1..Len(saws[c].invoked) : saws[c].invoked[j] = saws[c].issued[k]

TrapRecords(c) == {k \in 1..Len(saws[c].actions) : saws[c].actions[k].trap}

\* C13 as claimed: when every operation calls next() once or nests with
\* autoAdvance and jump and down are never called, every action record
\* enqueued is eventually invoked, trap records in the queues or not: once
\* nothing is left to run, nothing enqueued is left uninvoked.
C13_EventuallyInvoked == (Quiescent /\ NextOnceOrNest) => AllInvoked

\* what the code keeps of C13: the claim for the runs that register no trap
C13_InvokedWithoutTraps ==
    (Quiescent /\ NextOnceOrNest /\ \A c \in Live : TrapRecords(c) = {}) => AllInvoked

C13_WitnessWithoutTraps ==
    /\ Quiescent /\ NextOnceOrNest /\ Cardinality(Live) = 3
    /\ \A c \in Live : saws[c].ends = 1

\* C14: only down runs a trap's callback.  A step enters a trap callback only
\* by a call of down on that chain; no trap record is ever invoked as an
\* operation; a jump onto a trap record leaves the cursor one past it, runs
\* nothing and signals nothing.
C14_NoTrapInvoked ==
    /\ pc.kind = "op" => ~pc.rec.trap
    /\ \A c \in Live : \A k \in 1..Len(saws[c].invoked) : ~saws[c].invoked[k].trap
    /\ lastJump.chain # 0 =>
          LET q == lastJump.queue
              s == lastJump.step
          IN  (0 <= s /\ s < Len(q) /\ q[s + 1].trap) =>
                  /\ lastJump.invoked = <<>>
                  /\ lastJump.run = Idle
                  /\ lastJump.cursor = s + 1
                  /\ ~lastJump.ended

C14_Step ==
    pc'.kind = "trapcb" =>
        /\ pc'.rec.trap
        /\ saws'[pc'.chain].replays =
               Append(saws[pc'.chain].replays, [op |-> "down", num |-> 0])
        /\ lastDown'.chain = pc'.chain /\ lastDown'.fired /\ lastDown'.act = pc'.rec

C14_OnlyDownSprings == [](C14_NoTrapInvoked) /\ [][C14_Step]_vars

C14_Witness ==
    /\ lastJump.chain # 0
    /\ 0 <= lastJump.step /\ lastJump.step < Len(lastJump.queue)
    /\ lastJump.queue[lastJump.step + 1].trap
    /\ pc = Idle
    /\ saws[lastJump.chain].step = lastJump.step + 1

\* the indexes (from 1) of the action records named name at or after the
\* cursor from, in the queue q
ActionHits(q, from, name) ==
    {k \in 1..Len(q) : k > from /\ ~q[k].trap /\ q[k].path = <<name>>}

\* C15 as claimed: when down(name) fires no trap, then if an action record
\* named name lies at or after the cursor, the cursor moves to the first such
\* record, which is the next one invoked; if there is none, the cursor is set
\* to the queue length, no operation is invoked and the chain signals 'end'.
C15_ForwardSearch ==
    (lastDown.chain # 0 /\ ~lastDown.fired) =>
        LET q == lastDown.queue
            hits == ActionHits(q, lastDown.from, lastDown.name)
        IN  IF hits # {}
            THEN LET m == CHOOSE k \in hits : \A j \in hits : k <= j
                 IN  /\ lastDown.located = m - 1
                     /\ lastDown.run = Running("op", lastDown.chain, q[m])
                     /\ ~lastDown.ended
            ELSE /\ lastDown.located = Len(q)
                 /\ ~(lastDown.run.kind # "idle" /\ lastDown.run.chain = lastDown.chain)
                 /\ lastDown.ended

\* the trap records named name at or after the cursor from that were
\* registered at a later cursor: the ones the search of down also matches
LaterTrapHits(q, from, name) ==
    {k \in 1..Len(q) : k > from /\ q[k].trap /\ q[k].step > from /\ q[k].path = <<name>>}

\* what the code keeps of C15: the claim for the calls of down whose search
\* meets no trap record of that name registered after the cursor
C15_SearchAmongActions ==
    (/\ lastDown.chain # 0 /\ ~lastDown.fired
     /\ LaterTrapHits(lastDown.queue, lastDown.from, lastDown.name) = {}) =>
        LET q == lastDown.queue
            hits == ActionHits(q, lastDown.from, lastDown.name)
        IN  IF hits # {}
            THEN LET m == CHOOSE k \in hits : \A j \in hits : k <= j
                 IN  /\ lastDown.located = m - 1
                     /\ lastDown.run = Running("op", lastDown.chain, q[m])
                     /\ ~lastDown.ended
            ELSE /\ lastDown.located = Len(q)
                 /\ ~(lastDown.run.kind # "idle" /\ lastDown.run.chain = lastDown.chain)
                 /\ lastDown.ended

C15_WitnessSkip ==
    /\ lastDown.chain # 0 /\ ~lastDown.fired
    /\ lastDown.located > lastDown.from
    /\ lastDown.run.kind = "op" /\ lastDown.run.rec.path = <<lastDown.name>>

C15_WitnessNoMatch ==
    /\ lastDown.chain # 0 /\ ~lastDown.fired
    /\ ActionHits(lastDown.queue, lastDown.from, lastDown.name) = {}
    /\ lastDown.queue # <<>> /\ lastDown.ended

\* C16 as claimed: the cursor of a recording chain is always in 0..N, N the
\* queue length, whatever was enqueued and whatever next, trap, down and
\* in-range jump calls were made, next() on an exhausted queue included.
C16_CursorInRange ==
    \A c \in Live :
        (saws[c].recording /\ ~saws[c].wild) =>
            (0 <= saws[c].step /\ saws[c].step <= Len(saws[c].actions))

\* what the code keeps of C16: the cursor never goes below 0, and it passes
\* the queue length only by next() calls that found the queue exhausted
C16_CursorFromZero ==
    \A c \in Live :
        (saws[c].recording /\ ~saws[c].wild) =>
            /\ 0 <= saws[c].step
            /\ saws[c].step <= Len(saws[c].actions) + saws[c].ends

C16_WitnessPast ==
    \E c \in Live :
        /\ saws[c].recording /\ ~saws[c].wild
        /\ saws[c].replays # <<>> /\ saws[c].ends = 2
        /\ saws[c].step > Len(saws[c].actions)

\* C17 as claimed: when down fires a trap, the step the trap was registered
\* at is at most the cursor position at which down located it, so the rewind
\* to that step never moves the cursor forward.
C17_RewindNotForward ==
    (lastDown.chain # 0 /\ lastDown.fired) =>
        /\ lastDown.act.trap
        /\ lastDown.act.step <= lastDown.located
        /\ lastDown.cursor = lastDown.act.step

\* what the code keeps of C17: the claim for the traps registered while the
\* cursor was within the queue
C17_RegisteredInRange ==
    (/\ lastDown.chain # 0 /\ lastDown.fired
     /\ \E k \in 1..Len(lastDown.queue) :
            lastDown.queue[k] = lastDown.act /\ lastDown.act.step < k) =>
        /\ lastDown.act.step <= lastDown.located
        /\ lastDown.cursor = lastDown.act.step

C17_WitnessRewind ==
    /\ lastDown.chain # 0 /\ lastDown.fired
    /\ lastDown.act.step < lastDown.located
    /\ pc.kind = "trapcb"
    /\ saws[lastDown.chain].step = lastDown.act.step

\* C18: a chain nested with autoAdvance false runs its queue to 'end' like
\* any other, but its 'end' calls nothing of the parent: the step in which it
\* signals 'end' leaves the parent's queue, cursor and history as they were,
\* and it never resumes the parent.
C18_NeverListens ==
    \A s \in Live :
        (saws[s].parent # 0 /\ ~saws[s].autonext) =>
            (~saws[s].listening /\ saws[s].resumed = 0)

C18_EndStep ==
    \A s \in Chains :
        (/\ saws[s].exists /\ saws[s].parent # 0 /\ ~saws[s].autonext
         /\ saws'[s].ends > saws[s].ends) =>
            saws'[saws[s].parent] = saws[saws[s].parent]

C18_NoAutoAdvance == [](C18_NeverListens) /\ [][C18_EndStep]_vars

C18_Witness ==
    \E s \in Live :
        /\ saws[s].parent # 0 /\ ~saws[s].autonext
        /\ saws[s].ends = 1 /\ saws[s].invoked = saws[s].issued /\ saws[s].invoked # <<>>
        /\ pc = Idle /\ ticks = <<>>
        /\ saws[saws[s].parent].ends = 0
        /\ Len(saws[saws[s].parent].invoked) = saws[s].nestAt
        /\ Len(saws[saws[s].parent].actions) > saws[saws[s].parent].step

\* C19: when the path of the record next() consumes resolves to no operation
\* of the surface, next() fails with an error nothing in the driver catches.
\* The record is consumed, no operation is invoked in its place, that next()
\* signals no 'end', and no such record is ever passed over in silence.
C19_NeverIgnored ==
    /\ \A c \in Live : \A k \in 1..Len(saws[c].invoked) : saws[c].invoked[k].path \in Surface
    /\ \A c \in Live :
          saws[c].failed # <<>> =>
              /\ pc = Running("typeerror", c, saws[c].failed[Len(saws[c].failed)])
              /\ Len(saws[c].failed) = 1
    /\ pc.kind = "typeerror" => (~pc.rec.trap /\ pc.rec.path \notin Surface)

C19_FailStep ==
    (pc'.kind = "typeerror" /\ pc.kind # "typeerror") =>
        LET c == pc'.chain
        IN  /\ saws'[c].failed = Append(saws[c].failed, pc'.rec)
            /\ saws'[c].ends = saws[c].ends
            /\ \A d \in Chains : saws'[d].invoked = saws[d].invoked
            /\ IF saws'[c].recording
               THEN /\ saws'[c].step \in 1..Len(saws'[c].actions)
                    /\ saws'[c].actions[saws'[c].step] = pc'.rec
               ELSE /\ saws[c].actions # <<>> /\ Head(saws[c].actions) = pc'.rec
                    /\ saws'[c].actions = Tail(saws[c].actions)

C19_UnresolvedFails == [](C19_NeverIgnored) /\ [][C19_FailStep]_vars

C19_Witness ==
    /\ pc.kind = "typeerror"
    /\ saws[pc.chain].invoked # <<>>
    /\ saws[pc.chain].ends = 0
    /\ \E k \in 1..Len(saws[pc.chain].issued) :
           /\ saws[pc.chain].issued[k] = pc.rec
           /\ k < Len(saws[pc.chain].issued)

\* C20 as claimed: a chain nested with autoAdvance resumes its parent at most
\* once, however often its 'end' is signalled.
C20_ResumesOnce ==
    \A s \in Live : saws[s].parent # 0 => saws[s].resumed <= 1

\* what the code does instead: the listener stays, one resume per 'end'
C20_ResumesPerEnd ==
    \A s \in Live :
        saws[s].parent # 0 =>
            saws[s].resumed = (IF saws[s].listening THEN saws[s].ends ELSE 0)

C20_WitnessTwice ==
    \E s \in Live :
        /\ saws[s].parent # 0 /\ saws[s].autonext
        /\ saws[s].ends = 2 /\ saws[s].resumed = 2
        /\ saws[s].replays = <<[op |-> "jump", num |-> 0]>>

====
